---------------------------- MODULE Spec2Model ----------------------------
(***************************************************************************)
(* Model of the OpenFIGI client scripts:                                   *)
(*   src/IsinToTicker.py      ISIN -> ticker pipeline                      *)
(*   src/openfigi_to_isin.py  FIGI -> ISIN pipeline with 413 fallback      *)
(*   src/GetUltimateParent.py FIGI metadata pipeline                      *)
(*                                                                         *)
(* Python values are modelled as follows.  A string that may be None (or  *)
(* an absent key read through dict.get()) is NONE.  An optional list or    *)
(* record is Nothing or Some(v).  Lists are sequences; lst[a:b] is         *)
(* Slice(lst, a, b).                                                       *)
(***************************************************************************)
EXTENDS Integers, Sequences, FiniteSets, TLC

NONE == "None"
Nothing == <<>>
Some(v) == <<v>>

\* ------------------------------------------------------------------ bounds
MaxLen == 4
MaxSize == 5
MaxCands == 3

\* ------------------------------------------------------- generic helpers
Min(a, b) == IF a <= b THEN a ELSE b
Max(a, b) == IF a >= b THEN a ELSE b

\* Python's lst[a:b] for 0 <= a <= b
Slice(lst, a, b) == SubSeq(lst, a + 1, Min(b, Len(lst)))

SeqsUpTo(S, n) == UNION {[1..k -> S] : k \in 0..n}

RECURSIVE Flatten(_)
Flatten(ss) == IF ss = <<>> THEN <<>> ELSE Head(ss) \o Flatten(Tail(ss))

\* Python truthiness of an optional string
Truthy(v) == v # NONE /\ v # ""

\* ---------------------------------------------------------------- chunk
\* IsinToTicker.chunk: for i in range(0, len(lst), size): yield lst[i:i+size]
RECURSIVE chunkFromShort(_, _, _)
chunkFromShort(lst, size, i) ==
    IF i >= Len(lst) THEN <<>>
    ELSE <<Slice(lst, i, i + size - 1)>> \o chunkFromShort(lst, size, i + size)

RECURSIVE chunkFrom(_, _, _)
chunkFrom(lst, size, i) ==
    IF i >= Len(lst) THEN <<>>
    ELSE <<Slice(lst, i, i + size)>> \o chunkFrom(lst, size, i + size)

chunk(lst, size) == chunkFrom(lst, size, 0)

\* openfigi_to_isin.chunked: the same generator over seq
RECURSIVE chunkedFrom(_, _, _)
chunkedFrom(seq, size, i) ==
    IF i >= Len(seq) THEN <<>>
    ELSE <<Slice(seq, i, i + size)>> \o chunkedFrom(seq, size, i + size)

chunked(seq, size) == chunkedFrom(seq, size, 0)

\* ------------------------------------------------- select_best_result
MarketSectors == {"Equity", "Corp"}
ExchCodes == {"US", "LN"}
CompositeFIGIs == {NONE, "", "BBG000B9XRY4"}

Cand(ms, ex, cf) ==
    [ticker |-> "TCK", exchCode |-> ex, name |-> "NAME", figi |-> "FIGI",
     shareClassFIGI |-> NONE, compositeFIGI |-> cf, marketSector |-> ms,
     securityType |-> "Common Stock"]

Candidates == {Cand(ms, ex, cf) : ms \in MarketSectors, ex \in ExchCodes,
                                  cf \in CompositeFIGIs}

PreferredChoices == {Nothing, Some(<<>>), Some(<<"US">>)}

InList(x, l) == \E k \in 1..Len(l) : l[k] = x

\* the nested function score(r) of select_best_result
score(r, preferred_exch) ==
      (IF r.marketSector = "Equity" THEN 1 ELSE 0)
    + (IF preferred_exch # Nothing /\ preferred_exch[1] # <<>>
          /\ InList(r.exchCode, preferred_exch[1]) THEN 2 ELSE 0)
    + (IF Truthy(r.compositeFIGI) THEN 1 ELSE 0)

\* an insertion that puts a later candidate before earlier ones of equal score
RECURSIVE InsertDescUnstable(_, _, _)
InsertDescUnstable(srt, x, p) ==
    IF srt = <<>> THEN <<x>>
    ELSE IF score(Head(srt), p) > score(x, p)
         THEN <<Head(srt)>> \o InsertDescUnstable(Tail(srt), x, p)
         ELSE <<x>> \o srt

\* sorted(results, key=score, reverse=True): a stable sort, descending; equal
\* keys keep their input order.  Insertion after every element whose key is
\* >= the inserted one.
RECURSIVE InsertDesc(_, _, _)
InsertDesc(srt, x, p) ==
    IF srt = <<>> THEN <<x>>
    ELSE IF score(Head(srt), p) >= score(x, p)
         THEN <<Head(srt)>> \o InsertDesc(Tail(srt), x, p)
         ELSE <<x>> \o srt

RECURSIVE SortFrom(_, _, _, _)
SortFrom(results, k, acc, p) ==
    IF k > Len(results) THEN acc
    ELSE SortFrom(results, k + 1, InsertDesc(acc, results[k], p), p)

sortedByScore(results, p) == SortFrom(results, 1, <<>>, p)

select_best_result(results, preferred_exch) ==
    IF results = <<>> THEN Nothing
    ELSE Some(sortedByScore(results, preferred_exch)[1])

\* ------------------------------------------------ service job results
\* One element of the JSON array the service returns: {"data": [...]},
\* {"error": "..."} or an object with neither key ({"warning": "..."}).
\* error = ABSENT models a missing "error" key, hasData a present "data" key.
ABSENT == "<absent>"

CandLow == Cand("Corp", "US", NONE)
CandHigh == Cand("Equity", "LN", "BBG000B9XRY4")

RErr == [error |-> "Invalid idValue", hasData |-> FALSE, data |-> <<>>]
REmpty == [error |-> ABSENT, hasData |-> TRUE, data |-> <<>>]
RNoKeys == [error |-> ABSENT, hasData |-> FALSE, data |-> <<>>]
RHit == [error |-> ABSENT, hasData |-> TRUE, data |-> <<CandLow, CandHigh>>]

JobResults == {RErr, REmpty, RNoKeys, RHit}
IsinJobResults == {RErr, REmpty, RHit}

\* ---------------------------------------------- IsinToTicker pipeline
NotAString == "<float nan>"
RawIsins == {"US0378331005", " US5949181045 ", "  ", NotAString}

\* str.strip() on the raw values above
Strip(s) ==
    CASE s = " US5949181045 " -> "US5949181045"
      [] s = "  " -> ""
      [] OTHER -> s

\* isins = [s.strip() for s in isins if isinstance(s, str) and s.strip()]
KeptIsin(x) == x # NotAString /\ Strip(x) # ""

NormaliseIsins(raw) ==
    LET kept == SelectSeq(raw, KeptIsin)
    IN [k \in 1..Len(kept) |-> Strip(kept[k])]

KeyedBatch == 100
NoKeyBatch == 10

\* batch_size = 100 if api_key else 10, when batch_size is None
DefaultBatchSize(api_key, batch_arg) ==
    IF batch_arg = Nothing
    THEN (IF Truthy(api_key) THEN KeyedBatch ELSE NoKeyBatch)
    ELSE batch_arg[1]

\* make_mapping_jobs: an absent micCode / exchCode key is NONE
make_mapping_jobs(block, mic, exch_code) ==
    [k \in 1..Len(block) |->
        [idType |-> "ID_ISIN", idValue |-> block[k],
         micCode |-> IF Truthy(mic) THEN mic ELSE NONE,
         exchCode |-> IF Truthy(exch_code) THEN exch_code ELSE NONE]]

\* the row of one (req_job, job_result) pair of map_isins_to_tickers
IsinEntry(req_job, job_result, preferred_exch) ==
    LET blank == [ISIN |-> req_job.idValue, ticker |-> NONE, exchCode |-> NONE,
                  name |-> NONE, figi |-> NONE, shareClassFIGI |-> NONE,
                  compositeFIGI |-> NONE, marketSector |-> NONE,
                  securityType |-> NONE, error |-> NONE]
        sel == select_best_result(job_result.data, preferred_exch)
    IN IF job_result.error # ABSENT
       THEN [blank EXCEPT !.error = job_result.error]
       ELSE IF sel # Nothing
            THEN [blank EXCEPT !.ticker = sel[1].ticker,
                               !.exchCode = sel[1].exchCode,
                               !.name = sel[1].name,
                               !.figi = sel[1].figi,
                               !.shareClassFIGI = sel[1].shareClassFIGI,
                               !.compositeFIGI = sel[1].compositeFIGI,
                               !.marketSector = sel[1].marketSector,
                               !.securityType = sel[1].securityType]
            ELSE blank

\* for req_job, job_result in zip(jobs, response): zip stops at the shorter
ZipLen(a, b) == Min(Len(a), Len(b))

AssembleIsin(jbs, response, preferred_exch) ==
    [k \in 1..ZipLen(jbs, response) |-> IsinEntry(jbs[k], response[k], preferred_exch)]

\* call_openfigi: the single `if resp.status_code == 429` after the first POST
DefaultReset == 5

RetryOn429Always(status, nposts) == status = 429
RetryOn429(status, nposts) == status = 429 /\ nposts = 1

\* time.sleep(reset_sec + 0.5), in tenths of a second; hdr is the
\* ratelimit-reset header, Nothing when the response does not carry it
SleepFor429(hdr) == 10 * (IF hdr = Nothing THEN DefaultReset ELSE hdr[1]) + 5

\* resp.raise_for_status(): 4xx and 5xx raise
RaisesForStatus(status) == status >= 400 /\ status < 600

\* the status code in the message of the HTTPError that raise_for_status
\* raises: "<status> Client Error: ..." or "<status> Server Error: ..."
HttpErrorCode(status) == status

\* --------------------------------------------- openfigi_to_isin pipeline
Retry == 3
Backoff == 2

\* candidates of the FIGI -> ISIN pipeline also carry an isin
FigiCand(isin) == [isin |-> isin, name |-> "NAME", ticker |-> "TCK",
                   exchCode |-> "US", marketSector |-> "Equity"]

FErr == [error |-> "Invalid idValue", hasData |-> FALSE, data |-> <<>>]
FEmpty == [error |-> ABSENT, hasData |-> TRUE, data |-> <<>>]
FNoKeys == [error |-> ABSENT, hasData |-> FALSE, data |-> <<>>]
FHit == [error |-> ABSENT, hasData |-> TRUE,
         data |-> <<FigiCand("US0378331005"), FigiCand(NONE)>>]

\* the results the service is let to answer with; FNoKeys is assembled like
\* FEmpty (res.get("data") or [])
FigiJobResults == {FErr, FEmpty, FHit}

NoMatch == "Aucune correspondance"

\* a row that replaces the message of an errored result by the marker
CsvRowNoMessage(req, res) ==
    [figi |-> req.idValue, isin |-> NONE, name |-> NONE, ticker |-> NONE,
     exchCode |-> NONE, marketSector |-> NONE, error |-> NoMatch]

\* the row csv_mode builds from one (req, res) pair
CsvRow(req, res) ==
    LET blank == [figi |-> req.idValue, isin |-> NONE, name |-> NONE,
                  ticker |-> NONE, exchCode |-> NONE, marketSector |-> NONE,
                  error |-> NONE]
    IN IF res.error # ABSENT /\ Truthy(res.error)
       THEN [blank EXCEPT !.error = res.error]
       ELSE IF res.data = <<>>
            THEN [blank EXCEPT !.error = NoMatch]
            ELSE LET top == res.data[1]
                 IN [blank EXCEPT !.isin = top.isin, !.name = top.name,
                                  !.ticker = top.ticker,
                                  !.exchCode = top.exchCode,
                                  !.marketSector = top.marketSector]

\* for req, res in zip(requests_payload, responses)
AssembleCsv(reqs, resps) ==
    [k \in 1..ZipLen(reqs, resps) |-> CsvRow(reqs[k], resps[k])]

\* the row jsonl_mode writes for one (req, res) pair
JsonlRow(req, res) ==
    LET blank == [idValue |-> req.idValue, isin |-> NONE, name |-> NONE,
                  ticker |-> NONE, exchCode |-> NONE, marketSector |-> NONE,
                  error |-> NONE]
    IN IF res.error # ABSENT /\ Truthy(res.error)
       THEN [blank EXCEPT !.error = res.error]
       ELSE IF res.data = <<>>
            THEN [blank EXCEPT !.error = NoMatch]
            ELSE LET top == res.data[1]
                 IN [blank EXCEPT !.isin = top.isin, !.name = top.name,
                                  !.ticker = top.ticker,
                                  !.exchCode = top.exchCode,
                                  !.marketSector = top.marketSector]

\* for req, res in zip(payloads, responses), in jsonl_mode
AssembleJsonl(reqs, resps) ==
    [k \in 1..ZipLen(reqs, resps) |-> JsonlRow(reqs[k], resps[k])]

\* an output file without any row
WriteRowsNone(md, reqs, resps) == <<>>

\* the rows the mode in force writes once _map_with_fallback has returned
WriteRows(md, reqs, resps) ==
    IF md = "csv" THEN AssembleCsv(reqs, resps) ELSE AssembleJsonl(reqs, resps)

\* A line of the JSONL file: blank, or a JSON object whose idType / idValue
\* key may be ABSENT.
LBlank == [blank |-> TRUE, idType |-> ABSENT, idValue |-> ABSENT]
LGood == [blank |-> FALSE, idType |-> "ID_CUSIP", idValue |-> "037833100"]
LNoType == [blank |-> FALSE, idType |-> ABSENT, idValue |-> "037833100"]
LNoValue == [blank |-> FALSE, idType |-> "ID_CUSIP", idValue |-> ABSENT]

JsonlLineChoices == {LBlank, LGood, LNoType, LNoValue}

\* if not line: continue
NotBlank(l) == ~l.blank

\* if "idType" not in obj or "idValue" not in obj
LacksKey(l) == l.idType = ABSENT \/ l.idValue = ABSENT

\* the reading loop raises ValueError: some non-blank line lacks a key
JsonlRejectsFirstOnly(lines) ==
    LET objs == SelectSeq(lines, NotBlank)
    IN objs # <<>> /\ LacksKey(objs[1])
JsonlRejects(lines) ==
    LET objs == SelectSeq(lines, NotBlank)
    IN \E k \in 1..Len(objs) : LacksKey(objs[k])

\* payloads when the reading loop ends
JsonlPayloads(lines) ==
    LET objs == SelectSeq(lines, NotBlank)
    IN [k \in 1..Len(objs) |-> [idType |-> objs[k].idType,
                                idValue |-> objs[k].idValue]]

\* requests_payload of csv_mode
CsvPayload(column) ==
    [k \in 1..Len(column) |-> [idType |-> "ID_BB_GLOBAL", idValue |-> column[k]]]

\* The RuntimeError messages of map_figi_batch and _map_with_fallback, by
\* kind; detail is the body of a response with another status.
PlainDetail == "Internal Server Error"
EchoDetail == "proxy: upstream answered HTTP 413"
Details == {PlainDetail, EchoDetail}

\* the status code that the message of a RuntimeError holds: "HTTP 413:
\* ...", "Erreur API OpenFIGI (HTTP {status}): ...", "... (throttling 429)
\* ..."; the length-mismatch message holds none
ErrCodeNone(kind, status) == 0
ErrCode(kind, status) ==
    CASE kind = "http413" -> 413
      [] kind = "other" -> status
      [] kind = "throttle" -> 429
      [] OTHER -> 0

\* "HTTP 413" in msg
Mentions413(kind, detail) ==
    CASE kind = "http413" -> TRUE
      [] kind = "other" -> detail = EchoDetail
      [] OTHER -> FALSE

\* for attempt in range(1, retry + 1): another attempt follows this one
MoreAttemptsLoose(attempt) == attempt < Retry + 1
MoreAttempts(attempt) == attempt < Retry

\* sleep_for = backoff * attempt
SleepFor(attempt) == Backoff * attempt

\* new_size = max(1, local_batch_size // 2)
HalvedKeep(local) == local
Halved(local) == Max(1, local \div 2)

\* i += len(batch)
AdvanceNone(idx, sent, local) == idx
Advance(idx, sent, local) == idx + Len(sent)

\* current_batch_size = local_batch_size, once a batch is accepted
ResetSize(local, maxb) == Max(1, maxb)
CarriedSize(local, maxb) == local

\* if len(resp) != len(batch): raise
MisalignedNever(resp, sent) == FALSE
Misaligned(resp, sent) == Len(resp) # Len(sent)

\* --------------------------------------------- GetUltimateParent pipeline
GupBatchSize == 100
SmokeLimit == 3
MaxRetries == 1
BackoffBase == 2

\* an empty cell of the FIGI column
NaN == "<nan>"

\* figi_list = df["FIGI"].dropna().astype(str).tolist()
IsCell(x) == x # NaN
DropNa(cells) == SelectSeq(cells, IsCell)

\* figi_list = figi_list[:3]
Truncate(lst) == Slice(lst, 0, SmokeLimit)

\* jobs = [{"idType": "ID_BB_GLOBAL", "idValue": figi} for figi in figi_list]
GupJobs(lst) ==
    [k \in 1..Len(lst) |-> [idType |-> "ID_BB_GLOBAL", idValue |-> lst[k]]]

\* candidates of the metadata pipeline; a key the service left out is ABSENT
GC1 == [issuer |-> "ISSUER", name |-> "NAME", securityType |-> "Common Stock",
        ticker |-> "TCK", exchCode |-> "US", micCode |-> ABSENT]
GC2 == [issuer |-> ABSENT, name |-> "NAME", securityType |-> "Common Stock",
        ticker |-> "TCK", exchCode |-> ABSENT, micCode |-> "XNYS"]

\* {} and every object without a "data" key, {"data": []}, one and two
\* candidates
GBlank == [hasData |-> FALSE, data |-> <<>>]
GEmpty == [hasData |-> TRUE, data |-> <<>>]
GOne == [hasData |-> TRUE, data |-> <<GC1>>]
GTwo == [hasData |-> TRUE, data |-> <<GC1, GC2>>]

GupJobResults == {GBlank, GEmpty, GOne, GTwo}

NA == "N/A"

\* item.get(key, default)
Get(v, default) == IF v = ABSENT THEN default ELSE v

\* one writer.writerow of the CSV writing loop
GupRow(figi, item) ==
    [figi |-> figi, issuer |-> Get(item.issuer, NA), name |-> Get(item.name, NA),
     securityType |-> Get(item.securityType, NA),
     ticker |-> Get(item.ticker, NA),
     exchCode |-> Get(item.exchCode, Get(item.micCode, NA))]

GupNaRow(figi) ==
    [figi |-> figi, issuer |-> NA, name |-> NA, securityType |-> NA,
     ticker |-> NA, exchCode |-> NA]

\* the rows written for one (figi, result) pair
GupRowsOf(figi, result) ==
    IF result.hasData
    THEN [k \in 1..Len(result.data) |-> GupRow(figi, result.data[k])]
    ELSE <<GupNaRow(figi)>>

\* for figi, result in zip(figi_list, results_all)
GupCsv(figis, results) ==
    Flatten([k \in 1..Min(Len(figis), Len(results)) |->
                GupRowsOf(figis[k], results[k])])

\* [{}] * len(batch)
Blanks(n) == [k \in 1..n |-> GBlank]

\* if attempt <= max_retries
MayRetryTwice(attempt) == attempt <= MaxRetries + 1
MayRetry(attempt) == attempt <= MaxRetries

\* time.sleep(2 ** attempt)
RetrySleep(attempt) == BackoffBase ^ attempt

\* if 200 <= resp.status_code < 300
IsSuccess(status) == 200 <= status /\ status < 300

\* ------------------------------------------------------------ variables
VARIABLES
    in_lst, in_size, out_batches, cpc,          \* a chunk / chunked call
    in_results, in_preferred, out_best, spc,    \* a select_best_result call
    \* map_isins_to_tickers
    isins_in, api_key, batch_arg, pref_exch, mic_arg, exch_arg,  \* arguments
    isins, batch_size,   \* normalised list, batch size in force
    blk,                 \* the generator's index i into isins
    jobs,                \* jobs of the current block
    calls,               \* number of jobs of each call_openfigi call so far
    posted,              \* payloads POSTed by the current call_openfigi
    slept,               \* sleeps of the current call_openfigi, tenths of s
    hdr, istatus,        \* reset header read on a 429, status of the last response
    rows, rowSrc,        \* rows, and the job result each row was built from
    rowJob,              \* the request job each row was built from
    ipc, ierr,           \* position in the run, fatal error raised
    imsg,                \* status code that the message of the error holds, or 0
    \* csv_mode / _map_with_fallback / map_figi_batch
    figi_col, max_batch,                 \* arguments: the FIGI column, --batch-size
    mode, jsonl_lines,   \* --csv or --jsonl, the lines of the JSONL file
    payloads, responses, current_batch_size, mwf_i, local_batch_size, batch,
    attempt,             \* loop variable of map_figi_batch
    nposts,              \* POSTs sent by the current map_figi_batch call
    fslept,              \* sleeps of the current map_figi_batch call, seconds
    fhdr,                \* ratelimit-reset header of the 429 answer in hand
    inflight,            \* the jobs of the last POST
    lastReq,             \* the last answered request and its status
    fstatus, lastBody,   \* status and JSON body of the last response
    accepted,            \* the requests whose response was appended
    out_rows,            \* rows written to the output CSV
    out_written,         \* the output CSV has been written
    fraised,             \* the RuntimeError an except clause holds
    fpc, ferr,           \* position in the run, fatal error raised
    \* GetUltimateParent
    API_KEY, figi_cells, \* OPENFIGI_API_KEY, the cells of the FIGI column
    figi_list, gup_jobs, results_all,
    gup_i, gup_batch,    \* loop variable i and the batch of the batch loop
    gup_attempt,         \* attempt of the current post_with_retry call
    gup_posted,          \* payloads POSTed by the current post_with_retry call
    gup_slept,           \* sleeps of the current post_with_retry call, seconds
    gup_outcome,         \* how each batch so far ended
    csv_file,            \* figi_metadata.csv: Nothing, or Some(data rows)
    gpc, gerr            \* position in the run, error that ended it

varsChunk == <<in_lst, in_size, out_batches, cpc>>
varsSel == <<in_results, in_preferred, out_best, spc>>
varsIsinArgs == <<isins_in, api_key, batch_arg, pref_exch, mic_arg, exch_arg>>
varsIsin == <<varsIsinArgs, isins, batch_size, blk, jobs, calls, posted, slept, hdr,
              istatus, rows, rowSrc, rowJob, ipc, ierr, imsg>>
varsFigiArgs == <<figi_col, max_batch, mode, jsonl_lines>>
varsFigi == <<varsFigiArgs, payloads, responses, current_batch_size, mwf_i,
              local_batch_size, batch, attempt, nposts, fslept, inflight,
              lastReq, fstatus, lastBody, accepted, out_rows, out_written,
              fraised, fpc,
              ferr, fhdr>>
varsGupArgs == <<API_KEY, figi_cells>>
varsGup == <<varsGupArgs, figi_list, gup_jobs, results_all, gup_i, gup_batch,
             gup_attempt, gup_posted, gup_slept, gup_outcome, csv_file, gpc,
             gerr>>
vars == <<varsChunk, varsSel, varsIsin, varsFigi, varsGup>>

Items == {"a", "b"}

InitChunkIdle ==
    in_lst = <<>> /\ in_size = 1 /\ out_batches = <<>> /\ cpc = "idle"

InitSelIdle ==
    in_results = <<>> /\ in_preferred = Nothing /\ out_best = Nothing /\ spc = "idle"

InitIsinIdle ==
    /\ isins_in = <<>> /\ api_key = NONE /\ batch_arg = Nothing
    /\ pref_exch = Nothing /\ mic_arg = NONE /\ exch_arg = NONE
    /\ isins = <<>> /\ batch_size = 0 /\ blk = 0 /\ jobs = <<>> /\ calls = <<>>
    /\ posted = <<>> /\ slept = <<>> /\ hdr = Nothing /\ istatus = 0
    /\ rows = <<>> /\ rowSrc = <<>> /\ rowJob = <<>> /\ ipc = "idle"
    /\ ierr = NONE /\ imsg = 0

InitFigiRun ==
    /\ payloads = <<>> /\ responses = <<>> /\ current_batch_size = 0
    /\ mwf_i = 0 /\ local_batch_size = 0 /\ batch = <<>> /\ attempt = 0
    /\ nposts = 0 /\ fslept = <<>> /\ inflight = <<>> /\ lastReq = Nothing
    /\ fstatus = 0 /\ lastBody = Nothing /\ accepted = <<>>
    /\ out_rows = <<>> /\ out_written = FALSE /\ fraised = Nothing
    /\ ferr = NONE /\ fhdr = Nothing

InitFigiIdle ==
    /\ figi_col = <<>> /\ max_batch = 0 /\ mode = NONE /\ jsonl_lines = <<>>
    /\ fpc = "idle" /\ InitFigiRun

InitGupRun ==
    /\ figi_list = <<>> /\ gup_jobs = <<>> /\ results_all = <<>> /\ gup_i = 0
    /\ gup_batch = <<>> /\ gup_attempt = 0 /\ gup_posted = <<>>
    /\ gup_slept = <<>> /\ gup_outcome = <<>> /\ csv_file = Nothing
    /\ gerr = NONE

InitGupIdle ==
    API_KEY = NONE /\ figi_cells = <<>> /\ gpc = "idle" /\ InitGupRun

\* ------------------------------------------------- chunk specification
InitChunk ==
    /\ in_lst \in SeqsUpTo(Items, MaxLen)
    /\ in_size \in 1..MaxSize
    /\ out_batches = <<>>
    /\ cpc = "init"
    /\ InitSelIdle /\ InitIsinIdle /\ InitFigiIdle /\ InitGupIdle

CallChunk ==
    /\ cpc = "init"
    /\ out_batches' = chunk(in_lst, in_size)
    /\ cpc' = "chunk"
    /\ UNCHANGED <<in_lst, in_size, varsSel, varsIsin, varsFigi, varsGup>>

CallChunked ==
    /\ cpc = "init"
    /\ out_batches' = chunked(in_lst, in_size)
    /\ cpc' = "chunked"
    /\ UNCHANGED <<in_lst, in_size, varsSel, varsIsin, varsFigi, varsGup>>

NextChunk == CallChunk \/ CallChunked

SpecChunk == InitChunk /\ [][NextChunk]_vars

\* ------------------------------------ select_best_result specification
InitSel ==
    /\ in_results \in SeqsUpTo(Candidates, MaxCands)
    /\ in_preferred \in PreferredChoices
    /\ out_best = Nothing
    /\ spc = "init"
    /\ InitChunkIdle /\ InitIsinIdle /\ InitFigiIdle /\ InitGupIdle

CallSelect ==
    /\ spc = "init"
    /\ out_best' = select_best_result(in_results, in_preferred)
    /\ spc' = "done"
    /\ UNCHANGED <<in_results, in_preferred, varsChunk, varsIsin, varsFigi, varsGup>>

NextSel == CallSelect

SpecSel == InitSel /\ [][NextSel]_vars

\* ---------------------------------- map_isins_to_tickers specification
MaxIsins == 3
MaxBatch == 3

\* (api_key, batch_size) arguments: api_key is read only to choose the
\* default batch size (and the request header), so a key is paired with the
\* default batch size only
IsinConfigs == {<<NONE, Nothing>>, <<"key", Nothing>>}
               \cup {<<NONE, Some(b)>> : b \in 1..MaxBatch}
IsinPreferred == {Nothing, Some(<<"US">>)}
MicChoices == {NONE}
ExchChoices == {NONE}
ResetHeaders == {Nothing, Some(0), Some(3)}
ErrorStatuses == {429, 404, 500}

InitIsin ==
    /\ isins_in \in SeqsUpTo(RawIsins, MaxIsins)
    /\ \E cfg \in IsinConfigs : api_key = cfg[1] /\ batch_arg = cfg[2]
    /\ pref_exch \in IsinPreferred
    /\ mic_arg \in MicChoices
    /\ exch_arg \in ExchChoices
    /\ isins = <<>> /\ batch_size = 0 /\ blk = 0 /\ jobs = <<>> /\ calls = <<>>
    /\ posted = <<>> /\ slept = <<>> /\ hdr = Nothing /\ istatus = 0
    /\ rows = <<>> /\ rowSrc = <<>> /\ rowJob = <<>> /\ ipc = "init"
    /\ ierr = NONE /\ imsg = 0
    /\ InitChunkIdle /\ InitSelIdle /\ InitFigiIdle /\ InitGupIdle

\* The for loop over chunk(isins, batch_size) at generator index i: either
\* the next block's jobs are built and call_openfigi is entered, or the loop
\* ends and the DataFrame is returned.
IsinEnterBlock(all, bsize, i) ==
    /\ blk' = i
    /\ posted' = <<>>
    /\ slept' = <<>>
    /\ IF i < Len(all)
       THEN /\ jobs' = make_mapping_jobs(Slice(all, i, i + bsize), mic_arg, exch_arg)
            /\ calls' = Append(calls, Len(jobs'))
            /\ ipc' = "post"
       ELSE /\ jobs' = <<>>
            /\ calls' = calls
            /\ ipc' = "done"

\* map_isins_to_tickers is called: lines 92-100
IsinStart ==
    /\ ipc = "init"
    /\ isins' = NormaliseIsins(isins_in)
    /\ batch_size' = DefaultBatchSize(api_key, batch_arg)
    /\ IsinEnterBlock(isins', batch_size', 0)
    /\ UNCHANGED <<varsIsinArgs, hdr, istatus, rows, rowSrc, rowJob, ierr, imsg>>
    /\ UNCHANGED <<varsChunk, varsSel, varsFigi, varsGup>>

\* requests.post(OPENFIGI_URL, json=jobs, ...), first or second
IsinPost ==
    /\ ipc = "post"
    /\ posted' = Append(posted, jobs)
    /\ ipc' = "await"
    /\ UNCHANGED <<varsIsinArgs, isins, batch_size, blk, jobs, calls, slept, hdr,
                   istatus, rows, rowSrc, rowJob, ierr, imsg>>
    /\ UNCHANGED <<varsChunk, varsSel, varsFigi, varsGup>>

\* a 429 answer that is retried: sleep, then POST again
IsinRateLimited ==
    /\ ipc = "await"
    /\ RetryOn429(429, Len(posted))
    /\ \E h \in ResetHeaders :
        /\ hdr' = h
        /\ slept' = Append(slept, SleepFor429(h))
    /\ istatus' = 429
    /\ ipc' = "post"
    /\ UNCHANGED <<varsIsinArgs, isins, batch_size, blk, jobs, calls, posted, rows,
                   rowSrc, rowJob, ierr, imsg>>
    /\ UNCHANGED <<varsChunk, varsSel, varsFigi, varsGup>>

\* a status that resp.raise_for_status() turns into an exception; the reset
\* header of such a response is not read
IsinHttpError ==
    /\ ipc = "await"
    /\ \E st \in ErrorStatuses :
        /\ ~RetryOn429(st, Len(posted))
        /\ RaisesForStatus(st)
        /\ istatus' = st
        /\ ierr' = "HTTPError"
        /\ imsg' = HttpErrorCode(st)
    /\ ipc' = "fatal"
    /\ UNCHANGED <<varsIsinArgs, isins, batch_size, blk, jobs, calls, posted, slept,
                   hdr, rows, rowSrc, rowJob>>
    /\ UNCHANGED <<varsChunk, varsSel, varsFigi, varsGup>>

\* a 200 answer whose body is the JSON array `response`: the rows of the
\* block are assembled and the loop goes on
IsinOkWith(response) ==
    /\ ipc = "await"
    /\ rows' = rows \o AssembleIsin(jobs, response, pref_exch)
    /\ rowSrc' = rowSrc \o SubSeq(response, 1, ZipLen(jobs, response))
    /\ rowJob' = rowJob \o SubSeq(jobs, 1, ZipLen(jobs, response))
    /\ istatus' = 200
    /\ hdr' = Nothing
    /\ IsinEnterBlock(isins, batch_size, blk + batch_size)
    /\ UNCHANGED <<varsIsinArgs, isins, batch_size, ierr, imsg>>
    /\ UNCHANGED <<varsChunk, varsSel, varsFigi, varsGup>>

IsinOk == \E response \in SeqsUpTo(IsinJobResults, Len(jobs) + 1) : IsinOkWith(response)

\* a 200 answer whose body is not JSON: resp.json() raises
IsinNotJson ==
    /\ ipc = "await"
    /\ istatus' = 200
    /\ hdr' = Nothing
    /\ ierr' = "JSONDecodeError"
    /\ imsg' = 0
    /\ ipc' = "fatal"
    /\ UNCHANGED <<varsIsinArgs, isins, batch_size, blk, jobs, calls, posted, slept,
                   rows, rowSrc, rowJob>>
    /\ UNCHANGED <<varsChunk, varsSel, varsFigi, varsGup>>

NextIsin ==
    \/ IsinStart
    \/ IsinPost
    \/ IsinRateLimited
    \/ IsinHttpError
    \/ IsinOk
    \/ IsinNotJson

SpecIsin == InitIsin /\ [][NextIsin]_vars

\* ------------- map_isins_to_tickers over the 120 ISINs of the scenario
ScenarioJobs == 120

ScenarioIsins(n) == [k \in 1..n |-> "US0378331005"]

\* no key and no batch size, a key and no batch size, no key and an
\* explicit batch size of 100
ScenarioConfigs == {<<NONE, Nothing>>, <<"key", Nothing>>,
                    <<NONE, Some(KeyedBatch)>>}

InitScenario ==
    /\ isins_in \in {ScenarioIsins(ScenarioJobs - 1), ScenarioIsins(ScenarioJobs)}
    /\ \E cfg \in ScenarioConfigs : api_key = cfg[1] /\ batch_arg = cfg[2]
    /\ pref_exch = Nothing
    /\ mic_arg = NONE
    /\ exch_arg = NONE
    /\ isins = <<>> /\ batch_size = 0 /\ blk = 0 /\ jobs = <<>> /\ calls = <<>>
    /\ posted = <<>> /\ slept = <<>> /\ hdr = Nothing /\ istatus = 0
    /\ rows = <<>> /\ rowSrc = <<>> /\ rowJob = <<>> /\ ipc = "init"
    /\ ierr = NONE /\ imsg = 0
    /\ InitChunkIdle /\ InitSelIdle /\ InitFigiIdle /\ InitGupIdle

\* a 200 answer that carries one result without candidate per job
IsinOkAligned == IsinOkWith([k \in 1..Len(jobs) |-> REmpty])

NextScenario ==
    \/ IsinStart
    \/ IsinPost
    \/ IsinRateLimited
    \/ IsinHttpError
    \/ IsinOkAligned
    \/ IsinNotJson

SpecScenario == InitScenario /\ [][NextScenario]_vars

\* ------------------------------------------- csv_mode specification
MaxJobs == 3
MaxFigiBatch == 4

FigiValues == {"BBG000B9XRY4", "BBG000BPH459"}
OtherStatuses == {404, 500}

\* the ratelimit-reset header a 429 answer may carry, in seconds
FigiResetHeaders == {Nothing, Some(3)}

InitFigi ==
    /\ figi_col \in SeqsUpTo(FigiValues, MaxJobs)
    /\ max_batch \in (-1)..MaxFigiBatch
    /\ mode = "csv"
    /\ jsonl_lines = <<>>
    /\ fpc = "init"
    /\ InitFigiRun
    /\ InitChunkIdle /\ InitSelIdle /\ InitIsinIdle /\ InitGupIdle

\* _map_with_fallback is entered with the payloads pl and runs up to the
\* first POST of map_figi_batch; on an empty list it returns at once and the
\* caller writes an output file without rows
MapWithFallbackEnter(pl) ==
    /\ payloads' = pl
    /\ responses' = <<>>
    /\ current_batch_size' = Max(1, max_batch)
    /\ mwf_i' = 0
    /\ out_rows' = <<>>
    /\ IF 0 < Len(pl)
       THEN /\ local_batch_size' = current_batch_size'
            /\ batch' = Slice(pl, 0, 0 + local_batch_size')
            /\ attempt' = 1
            /\ out_written' = FALSE
            /\ fpc' = "post"
       ELSE /\ fpc' = "done"
            /\ out_written' = TRUE
            /\ UNCHANGED <<local_batch_size, batch, attempt>>
    /\ UNCHANGED <<varsFigiArgs, nposts, fslept, inflight, lastReq, fstatus,
                   lastBody, accepted, fraised, ferr, fhdr>>

\* csv_mode is called: the payload is built and _map_with_fallback entered
FigiStart ==
    /\ fpc = "init"
    /\ mode = "csv"
    /\ MapWithFallbackEnter(CsvPayload(figi_col))
    /\ UNCHANGED <<varsChunk, varsSel, varsIsin, varsGup>>

\* requests.post(OPENFIGI_URL, headers=headers, data=json.dumps(payload))
FigiPost ==
    /\ fpc = "post"
    /\ inflight' = batch
    /\ nposts' = nposts + 1
    /\ fraised' = Nothing
    /\ fhdr' = Nothing
    /\ fpc' = "await"
    /\ UNCHANGED <<varsFigiArgs, payloads, responses, current_batch_size, mwf_i,
                   local_batch_size, batch, attempt, fslept, lastReq, fstatus,
                   lastBody, accepted, out_rows, out_written, ferr>>
    /\ UNCHANGED <<varsChunk, varsSel, varsIsin, varsGup>>

Answered(st, body) ==
    /\ lastReq' = Some([start |-> mwf_i, size |-> local_batch_size,
                        jobs |-> inflight, status |-> st])
    /\ fstatus' = st
    /\ lastBody' = body

\* except RuntimeError as e, in _map_with_fallback: a message that holds
\* "HTTP 413" halves the batch size and calls map_figi_batch again on the
\* same range while the size is above 1; anything else is raised again.
\* sl: the sleeps of the map_figi_batch call that raised.
ExceptRuntimeError(kind, detail, sl) ==
    /\ fraised' = Some([kind |-> kind, code |-> ErrCode(kind, fstatus'),
                        detail |-> detail])
    /\ IF Mentions413(kind, detail) /\ local_batch_size > 1
       THEN /\ local_batch_size' = Halved(local_batch_size)
            /\ batch' = Slice(payloads, mwf_i, mwf_i + local_batch_size')
            /\ attempt' = 1
            /\ nposts' = 0
            /\ fslept' = <<>>
            /\ fpc' = "post"
            /\ ferr' = ferr
       ELSE /\ fpc' = "fatal"
            /\ ferr' = kind
            /\ fslept' = sl
            /\ UNCHANGED <<local_batch_size, batch, attempt, nposts>>

\* status 429: sleep, then the next attempt, or the RuntimeError after the
\* last one
FigiThrottled ==
    /\ fpc = "await"
    /\ Answered(429, Nothing)
    /\ fhdr' \in FigiResetHeaders
    /\ IF MoreAttempts(attempt)
       THEN /\ attempt' = attempt + 1
            /\ fslept' = Append(fslept, SleepFor(attempt))
            /\ fpc' = "post"
            /\ UNCHANGED <<local_batch_size, batch, nposts, fraised, ferr>>
       ELSE ExceptRuntimeError("throttle", PlainDetail,
                               Append(fslept, SleepFor(attempt)))
    /\ UNCHANGED <<varsFigiArgs, payloads, responses, current_batch_size, mwf_i,
                   inflight, accepted, out_rows, out_written>>
    /\ UNCHANGED <<varsChunk, varsSel, varsIsin, varsGup>>

\* status 413
FigiTooLarge ==
    /\ fpc = "await"
    /\ Answered(413, Nothing)
    /\ ExceptRuntimeError("http413", PlainDetail, fslept)
    /\ UNCHANGED <<varsFigiArgs, payloads, responses, current_batch_size, mwf_i,
                   inflight, accepted, out_rows, out_written, fhdr>>
    /\ UNCHANGED <<varsChunk, varsSel, varsIsin, varsGup>>

\* any other status, with the response body put into the message
FigiOtherStatus ==
    /\ fpc = "await"
    /\ \E st \in OtherStatuses, detail \in Details :
        /\ Answered(st, Nothing)
        /\ ExceptRuntimeError("other", detail, fslept)
    /\ UNCHANGED <<varsFigiArgs, payloads, responses, current_batch_size, mwf_i,
                   inflight, accepted, out_rows, out_written, fhdr>>
    /\ UNCHANGED <<varsChunk, varsSel, varsIsin, varsGup>>

\* status 200 with a body that is not JSON: resp.json() raises a ValueError,
\* which no handler of _map_with_fallback catches
FigiNotJson ==
    /\ fpc = "await"
    /\ Answered(200, Nothing)
    /\ fpc' = "fatal"
    /\ ferr' = "JSONDecodeError"
    /\ UNCHANGED <<varsFigiArgs, payloads, responses, current_batch_size, mwf_i,
                   local_batch_size, batch, attempt, nposts, fslept, inflight,
                   accepted, out_rows, out_written, fraised, fhdr>>
    /\ UNCHANGED <<varsChunk, varsSel, varsIsin, varsGup>>

\* status 200 with a JSON array: length check, append, advance; then the
\* next batch is called, or _map_with_fallback returns and csv_mode writes
\* the rows
FigiOk ==
    /\ fpc = "await"
    /\ \E resp \in SeqsUpTo(FigiJobResults, Len(inflight) + 1) :
        /\ Answered(200, Some(resp))
        /\ IF Misaligned(resp, batch)
           THEN /\ ExceptRuntimeError("mismatch", PlainDetail, fslept)
                /\ UNCHANGED <<responses, current_batch_size, mwf_i, accepted,
                               out_rows, out_written>>
           ELSE /\ responses' = responses \o resp
                /\ accepted' = Append(accepted, [start |-> mwf_i,
                                                 jobs |-> inflight, resp |-> resp])
                /\ mwf_i' = Advance(mwf_i, batch, local_batch_size)
                /\ current_batch_size' = CarriedSize(local_batch_size, max_batch)
                /\ ferr' = ferr
                /\ fraised' = fraised
                /\ IF mwf_i' < Len(payloads)
                   THEN /\ local_batch_size' = current_batch_size'
                        /\ batch' = Slice(payloads, mwf_i', mwf_i' + local_batch_size')
                        /\ attempt' = 1
                        /\ nposts' = 0
                        /\ fslept' = <<>>
                        /\ fpc' = "post"
                        /\ out_rows' = out_rows
                        /\ out_written' = out_written
                   ELSE /\ fpc' = "done"
                        /\ out_rows' = WriteRows(mode, payloads, responses')
                        /\ out_written' = TRUE
                        /\ UNCHANGED <<local_batch_size, batch, attempt, nposts,
                                       fslept>>
    /\ UNCHANGED <<varsFigiArgs, payloads, inflight, fhdr>>
    /\ UNCHANGED <<varsChunk, varsSel, varsIsin, varsGup>>

NextFigi ==
    \/ FigiStart
    \/ FigiPost
    \/ FigiThrottled
    \/ FigiTooLarge
    \/ FigiOtherStatus
    \/ FigiNotJson
    \/ FigiOk

SpecFigi == InitFigi /\ [][NextFigi]_vars

\* ------------------------------------------ jsonl_mode specification
JsonlBatches == {1, 2}

InitJsonl ==
    /\ figi_col = <<>>
    /\ max_batch \in JsonlBatches
    /\ mode = "jsonl"
    /\ jsonl_lines \in SeqsUpTo(JsonlLineChoices, MaxJobs)
    /\ fpc = "init"
    /\ InitFigiRun
    /\ InitChunkIdle /\ InitSelIdle /\ InitIsinIdle /\ InitGupIdle

\* jsonl_mode is called: the file is read and checked line by line, then
\* _map_with_fallback is entered; a line that lacks a key raises ValueError,
\* which main turns into exit status 3
JsonlStart ==
    /\ fpc = "init"
    /\ mode = "jsonl"
    /\ IF JsonlRejects(jsonl_lines)
       THEN /\ fpc' = "fatal"
            /\ ferr' = "ValueError"
            /\ UNCHANGED <<varsFigiArgs, payloads, responses,
                           current_batch_size, mwf_i, local_batch_size, batch,
                           attempt, nposts, fslept, inflight, lastReq, fstatus,
                           lastBody, accepted, out_rows, out_written, fraised,
                           fhdr>>
       ELSE MapWithFallbackEnter(JsonlPayloads(jsonl_lines))
    /\ UNCHANGED <<varsChunk, varsSel, varsIsin, varsGup>>

NextJsonl ==
    \/ JsonlStart
    \/ FigiPost
    \/ FigiThrottled
    \/ FigiTooLarge
    \/ FigiOtherStatus
    \/ FigiNotJson
    \/ FigiOk

SpecJsonl == InitJsonl /\ [][NextJsonl]_vars

\* --------------------- main of openfigi_to_isin.py: --csv or --jsonl
InitMain == InitFigi \/ InitJsonl

NextMain == NextFigi \/ JsonlStart

SpecMain == InitMain /\ [][NextMain]_vars

\* ------------------- the two client pipelines, one run of either of them
InitClients == InitIsin \/ InitFigi

NextClients == NextIsin \/ NextFigi

SpecClients == InitClients /\ [][NextClients]_vars

\* ------------------------------------- GetUltimateParent specification
MaxFigis == 4

GupCells == {"BBG000B9XRY4", "BBG000BPH459", NaN}
GupKeys == {NONE, "key"}
GupStatuses == {200, 429, 500}

InitGup ==
    /\ API_KEY \in GupKeys
    /\ figi_cells \in SeqsUpTo(GupCells, MaxFigis)
    /\ gpc = "boot"
    /\ InitGupRun
    /\ InitChunkIdle /\ InitSelIdle /\ InitIsinIdle /\ InitFigiIdle

\* for i in range(0, total, batch_size) at index idx: the next batch is cut
\* and post_with_retry is entered, or the loop ends and the CSV is written
GupEnterBatch(figis, js, idx, res) ==
    /\ gup_i' = idx
    /\ gup_attempt' = 0
    /\ gup_posted' = <<>>
    /\ gup_slept' = <<>>
    /\ IF idx < Len(js)
       THEN /\ gup_batch' = Slice(js, idx, idx + GupBatchSize)
            /\ csv_file' = csv_file
            /\ gpc' = "post"
       ELSE /\ gup_batch' = gup_batch
            /\ csv_file' = Some(GupCsv(figis, res))
            /\ gpc' = "done"

\* the script starts: key, Excel column, empty-list exit, truncation, jobs
GupBoot ==
    /\ gpc = "boot"
    /\ IF ~Truthy(API_KEY)
       THEN /\ gpc' = "fatal"
            /\ gerr' = "RuntimeError"
            /\ UNCHANGED <<figi_list, gup_jobs, results_all, gup_i, gup_batch,
                           gup_attempt, gup_posted, gup_slept, csv_file>>
       ELSE IF DropNa(figi_cells) = <<>>
            THEN /\ gpc' = "exit0"
                 /\ UNCHANGED <<figi_list, gup_jobs, results_all, gup_i,
                                gup_batch, gup_attempt, gup_posted, gup_slept,
                                csv_file, gerr>>
            ELSE /\ figi_list' = Truncate(DropNa(figi_cells))
                 /\ gup_jobs' = GupJobs(figi_list')
                 /\ results_all' = <<>>
                 /\ GupEnterBatch(figi_list', gup_jobs', 0, results_all')
                 /\ gerr' = gerr
    /\ UNCHANGED <<varsGupArgs, gup_outcome>>
    /\ UNCHANGED <<varsChunk, varsSel, varsIsin, varsFigi>>

\* attempt += 1; session.post(url, json=payload, timeout=timeout)
GupPost ==
    /\ gpc = "post"
    /\ gup_attempt' = gup_attempt + 1
    /\ gup_posted' = Append(gup_posted, gup_batch)
    /\ gpc' = "await"
    /\ UNCHANGED <<varsGupArgs, figi_list, gup_jobs, results_all, gup_i,
                   gup_batch, gup_slept, gup_outcome, csv_file, gerr>>
    /\ UNCHANGED <<varsChunk, varsSel, varsIsin, varsFigi>>

\* the body of the batch loop after post_with_retry returned or raised:
\* results_all.extend(res), then the next iteration
GupBatchEnds(kind, st, res) ==
    /\ results_all' = results_all \o res
    /\ gup_outcome' = Append(gup_outcome,
                             [kind |-> kind, status |-> st, posted |-> gup_posted,
                              slept |-> gup_slept, start |-> gup_i,
                              extended |-> Len(res)])
    /\ GupEnterBatch(figi_list, gup_jobs, gup_i + GupBatchSize, results_all')
    /\ UNCHANGED <<varsGupArgs, figi_list, gup_jobs, gerr>>

\* requests.Timeout in post_with_retry: sleep and POST again, or raise to
\* the batch loop, whose except Exception records one {} per job
GupTimeout ==
    /\ gpc = "await"
    /\ IF MayRetry(gup_attempt)
       THEN /\ gup_slept' = Append(gup_slept, RetrySleep(gup_attempt))
            /\ gpc' = "post"
            /\ UNCHANGED <<varsGupArgs, figi_list, gup_jobs, results_all,
                           gup_i, gup_batch, gup_attempt, gup_posted,
                           gup_outcome, csv_file, gerr>>
       ELSE GupBatchEnds("timeout", 0, Blanks(Len(gup_batch)))
    /\ UNCHANGED <<varsChunk, varsSel, varsIsin, varsFigi>>

\* any other exception of session.post (ConnectionError, ...): not caught
\* by post_with_retry, caught by the batch loop
GupException ==
    /\ gpc = "await"
    /\ GupBatchEnds("exception", 0, Blanks(Len(gup_batch)))
    /\ UNCHANGED <<varsChunk, varsSel, varsIsin, varsFigi>>

\* a status outside 200..299
GupBadStatus ==
    /\ gpc = "await"
    /\ \E st \in GupStatuses :
        /\ ~IsSuccess(st)
        /\ GupBatchEnds("status", st, Blanks(Len(gup_batch)))
    /\ UNCHANGED <<varsChunk, varsSel, varsIsin, varsFigi>>

\* a success status with a body that is not JSON: except ValueError
GupNotJson ==
    /\ gpc = "await"
    /\ \E st \in GupStatuses :
        /\ IsSuccess(st)
        /\ GupBatchEnds("notjson", st, Blanks(Len(gup_batch)))
    /\ UNCHANGED <<varsChunk, varsSel, varsIsin, varsFigi>>

\* a success status with a JSON array: results_all.extend(resp.json())
GupOk ==
    /\ gpc = "await"
    /\ \E st \in GupStatuses, resp \in SeqsUpTo(GupJobResults, Len(gup_batch) + 1) :
        /\ IsSuccess(st)
        /\ GupBatchEnds("ok", st, resp)
    /\ UNCHANGED <<varsChunk, varsSel, varsIsin, varsFigi>>

NextGup ==
    \/ GupBoot
    \/ GupPost
    \/ GupTimeout
    \/ GupException
    \/ GupBadStatus
    \/ GupNotJson
    \/ GupOk

SpecGup == InitGup /\ [][NextGup]_vars

\* ----------------------------------------------------------------- C3
CeilDiv(n, b) == (n + b - 1) \div b

\* C3: chunk and chunked yield exactly ceil(N/B) batches, each non-empty and
\* of size <= B, only the last one possibly smaller than B, whose
\* concatenation is the input in its original order; N = 0 yields no batch.
C3_ChunkPartition ==
    cpc \in {"chunk", "chunked"} =>
        /\ Len(out_batches) = CeilDiv(Len(in_lst), in_size)
        /\ \A k \in 1..Len(out_batches) : Len(out_batches[k]) >= 1 /\ Len(out_batches[k]) <= in_size
        /\ \A k \in 1..(Len(out_batches) - 1) : Len(out_batches[k]) = in_size
        /\ Flatten(out_batches) = in_lst
        /\ (Len(in_lst) = 0 => out_batches = <<>>)

C3_Witness ==
    /\ cpc = "chunk"
    /\ Len(in_lst) = 4 /\ in_size = 3
    /\ Len(out_batches) = 2 /\ Len(out_batches[2]) = 1

\* ----------------------------------------------------------------- C1
\* C1: a run of map_isins_to_tickers that completes emits exactly one row per
\* normalised input ISIN, and row j carries the ISIN of input j, whatever
\* arrays the service returned and however many batches were made.
C1_OneRowPerIsin ==
    ipc = "done" =>
        /\ Len(rows) = Len(isins)
        /\ \A j \in 1..Len(rows) : rows[j].ISIN = isins[j]

\* ----------------------------------------------------------------- C2
AcceptedJobs == Flatten([k \in 1..Len(accepted) |-> accepted[k].jobs])
AcceptedResps == Flatten([k \in 1..Len(accepted) |-> accepted[k].resp])

RECURSIVE SumLen(_)
SumLen(ss) == IF ss = <<>> THEN 0 ELSE Len(Head(ss)) + SumLen(Tail(ss))

\* C2: when _map_with_fallback returns, the response list has one element per
\* payload, the accepted requests cover the payloads contiguously in input
\* order, each job in exactly one of them, and the responses are the
\* accepted arrays in that order; an array whose length differs from the
\* batch sent is never appended and ends the run with a fatal error.
C2_ResponsesAligned ==
    /\ fpc = "done" =>
        /\ Len(responses) = Len(payloads)
        /\ AcceptedJobs = payloads
        /\ \A k \in 1..Len(accepted) :
            /\ accepted[k].start =
                 SumLen([m \in 1..(k - 1) |-> accepted[m].jobs])
            /\ accepted[k].jobs =
                 SubSeq(payloads, accepted[k].start + 1,
                        accepted[k].start + Len(accepted[k].jobs))
            /\ Len(accepted[k].resp) = Len(accepted[k].jobs)
        /\ \A j \in 1..Len(payloads) :
            \E k \in 1..Len(accepted) :
                /\ accepted[k].start < j
                /\ j <= accepted[k].start + Len(accepted[k].jobs)
                /\ responses[j] = accepted[k].resp[j - accepted[k].start]
    /\ responses = AcceptedResps
    /\ (fstatus = 200 /\ lastBody # Nothing /\ fpc # "await"
        /\ Len(lastBody[1]) # Len(lastReq[1].jobs)) =>
            /\ fpc = "fatal"
            /\ ferr = "mismatch"
            /\ (accepted # <<>> =>
                    accepted[Len(accepted)].start # lastReq[1].start)

\* two batches were accepted after a 413 and a 429
C2_Witness ==
    /\ fpc = "done"
    /\ Len(payloads) = 3
    /\ Len(accepted) = 2
    /\ Len(accepted[1].jobs) = 2
    /\ max_batch = 4
    /\ responses[1] # responses[2]

\* ----------------------------------------------------------------- C4
\* C4: the request that follows a 413 answer to a request of batch size s > 1
\* starts at the same job index and uses batch size floor(s / 2); when a
\* request is accepted, as many responses are appended as it had jobs.
C4_HalvedRetry ==
    /\ (fpc = "await" /\ lastReq # Nothing /\ lastReq[1].status = 413) =>
        /\ lastReq[1].size > 1
        /\ mwf_i = lastReq[1].start
        /\ local_batch_size = lastReq[1].size \div 2
        /\ inflight = SubSeq(payloads, mwf_i + 1,
                             Min(mwf_i + local_batch_size, Len(payloads)))
    /\ (lastReq # Nothing /\ lastReq[1].status = 200 /\ ferr = NONE) =>
        /\ accepted # <<>>
        /\ accepted[Len(accepted)].jobs = lastReq[1].jobs
        /\ Len(responses) = lastReq[1].start + Len(lastReq[1].jobs)

\* a batch of 4 was refused twice, 4 -> 2 -> 1, and then accepted
C4_Witness ==
    /\ max_batch = 4
    /\ Len(payloads) = 3
    /\ local_batch_size = 1
    /\ mwf_i = 1
    /\ Len(accepted) = 1
    /\ lastReq # Nothing /\ lastReq[1].status = 200

\* ----------------------------------------------------------------- C5
\* C5: every request that follows a 413 answer carries strictly fewer jobs
\* than the request that was answered 413.
C5_ShorterAfter413 ==
    (fpc = "await" /\ lastReq # Nothing /\ lastReq[1].status = 413) =>
        Len(inflight) < Len(lastReq[1].jobs)

\* ----------------------------------------------------------------- C6
\* C6: a 413 answer to a request of exactly one job ends the run with a
\* fatal error, and no further request is sent.
C6_SingleJob413Fatal ==
    (lastReq # Nothing /\ lastReq[1].status = 413 /\ Len(lastReq[1].jobs) = 1)
        => fpc = "fatal"

\* ----------------------------------------------------------------- C7
ExpectedSleep(h) == IF h = Nothing THEN 55 ELSE 10 * h[1] + 5

\* C7: call_openfigi POSTs a batch at most twice, both times the same jobs;
\* the second POST follows a 429 and a sleep of h + 0.5 s (5.5 s without the
\* header); a second 429 is a fatal error.
C7_OneRetryOn429 ==
    /\ Len(posted) <= 2
    /\ \A k \in 1..Len(posted) : posted[k] = jobs
    /\ Len(slept) <= 1
    /\ (Len(posted) = 2 => Len(slept) = 1)
    /\ (ipc = "post" /\ Len(posted) = 1) =>
            istatus = 429 /\ slept = <<ExpectedSleep(hdr)>>
    /\ (istatus = 429 /\ Len(posted) = 2 /\ ipc # "await") =>
            ipc = "fatal" /\ ierr = "HTTPError"

\* reset=3: a sleep of 3.5 s, one more POST, still 429, fatal
C7_Witness ==
    /\ ipc = "fatal"
    /\ istatus = 429
    /\ Len(posted) = 2
    /\ slept = <<35>>

\* ----------------------------------------------------------------- C8
\* C8: map_figi_batch sends at most Retry POSTs for one batch, each with the
\* same payload and each but the first after a 429; the array of the first
\* 200 answer is the result; Retry answers of 429 end the call with the
\* throttling RuntimeError.
C8_BoundedAttempts ==
    /\ nposts <= Retry
    /\ (fpc = "await" /\ nposts > 1) =>
            lastReq[1].status = 429 /\ inflight = lastReq[1].jobs
    /\ (fpc = "post" /\ nposts >= 1) => lastReq[1].status = 429
    /\ (fpc = "await") => inflight = batch
    /\ (fstatus = 200 /\ lastBody # Nothing /\ ferr = NONE /\ fpc # "await") =>
            accepted[Len(accepted)].resp = lastBody[1]
    /\ (fstatus = 429 /\ nposts = Retry /\ fpc # "await") =>
            fpc = "fatal" /\ ferr = "throttle"

C8_Witness ==
    /\ fpc = "fatal"
    /\ ferr = "throttle"
    /\ nposts = 3
    /\ Len(inflight) = 2

\* ---------------------------------------------------------------- C10
IsinDataFields(r) ==
    <<r.ticker, r.exchCode, r.name, r.figi, r.shareClassFIGI,
      r.compositeFIGI, r.marketSector, r.securityType>>
CsvDataFields(r) == <<r.isin, r.name, r.ticker, r.exchCode, r.marketSector>>
AllNone(fs) == \A k \in 1..Len(fs) : fs[k] = NONE
NoCandidates(res) == res.error = ABSENT /\ res.data = <<>>

\* C10: a job whose result has no candidate gets a row whose data fields are
\* all null and whose error field is a fixed non-null "no match" marker, in
\* map_isins_to_tickers and in csv_mode.
C10_NoMatchMarker ==
    /\ \A j \in 1..Len(rows) :
        NoCandidates(rowSrc[j]) =>
            AllNone(IsinDataFields(rows[j])) /\ rows[j].error # NONE
    /\ \A j \in 1..Len(out_rows) :
        NoCandidates(responses[j]) =>
            AllNone(CsvDataFields(out_rows[j])) /\ out_rows[j].error = NoMatch

\* ----------------------------------------------------------------- C9
MaxScore(rs, p) == CHOOSE m \in 0..4 :
    /\ \E k \in 1..Len(rs) : score(rs[k], p) = m
    /\ \A k \in 1..Len(rs) : score(rs[k], p) <= m

FirstMaxIndex(rs, p) == CHOOSE k \in 1..Len(rs) :
    /\ score(rs[k], p) = MaxScore(rs, p)
    /\ \A j \in 1..(k - 1) : score(rs[j], p) < MaxScore(rs, p)

\* C9: select_best_result returns None for an empty list; otherwise the
\* returned candidate scores at least as much as every candidate and is the
\* first candidate of the input that reaches the maximal score.
C9_SelectFirstMax ==
    spc = "done" =>
        IF in_results = <<>> THEN out_best = Nothing
        ELSE /\ out_best # Nothing
             /\ \A k \in 1..Len(in_results) :
                    score(out_best[1], in_preferred) >= score(in_results[k], in_preferred)
             /\ out_best[1] = in_results[FirstMaxIndex(in_results, in_preferred)]

\* two different candidates tie for the maximum and the first one is returned
C9_Witness ==
    /\ spc = "done"
    /\ Len(in_results) = 3
    /\ in_preferred = Some(<<"US">>)
    /\ score(in_results[1], in_preferred) < score(in_results[2], in_preferred)
    /\ score(in_results[2], in_preferred) = score(in_results[3], in_preferred)
    /\ in_results[2] # in_results[3]
    /\ out_best = Some(in_results[2])

\* ---------------------------------------------------------------- C11
SignalsError(res) == res.error # ABSENT /\ Truthy(res.error)

\* the data fields of a row are those of one candidate of its own result
IsinFromOwn(row, res) ==
    IF res.data = <<>> THEN AllNone(IsinDataFields(row))
    ELSE \E k \in 1..Len(res.data) :
            IsinDataFields(row) = IsinDataFields(res.data[k])
CsvFromOwn(row, res) ==
    IF res.data = <<>> THEN AllNone(CsvDataFields(row))
    ELSE CsvDataFields(row) = CsvDataFields(res.data[1])

\* C11: the row of a job whose result signals an error carries exactly that
\* error message and null data fields; every other row of the batch is built
\* from its own job and its own result; a run is ended only by a transport
\* failure, never by an errored result.
C11_ErrorRowOnly ==
    /\ \A j \in 1..Len(rows) :
        /\ rows[j].ISIN = rowJob[j].idValue
        /\ IF SignalsError(rowSrc[j])
           THEN /\ rows[j].error = rowSrc[j].error
                /\ AllNone(IsinDataFields(rows[j]))
           ELSE /\ rows[j].error = NONE
                /\ IsinFromOwn(rows[j], rowSrc[j])
    /\ \A j \in 1..Len(out_rows) :
        /\ out_rows[j].figi = payloads[j].idValue
        /\ IF SignalsError(responses[j])
           THEN /\ out_rows[j].error = responses[j].error
                /\ AllNone(CsvDataFields(out_rows[j]))
           ELSE /\ out_rows[j].error \in {NONE, NoMatch}
                /\ CsvFromOwn(out_rows[j], responses[j])
    /\ fpc = "done" => Len(out_rows) = Len(payloads)
    /\ ipc = "fatal" => ierr \in {"HTTPError", "JSONDecodeError"}
    /\ fpc = "fatal" =>
            ferr \in {"throttle", "http413", "other", "mismatch", "JSONDecodeError"}
    /\ (ipc \in {"post", "done"} /\ istatus = 200) => ierr = NONE

\* a batch answered [hit, error, hit]: the middle row carries the message,
\* its neighbours their own candidates, and the run completed
C11_Witness ==
    /\ fpc = "done"
    /\ Len(out_rows) = 3
    /\ responses = <<FHit, FErr, FHit>>
    /\ Len(accepted) = 1
    /\ out_rows[2].error = "Invalid idValue"
    /\ out_rows[1].isin = "US0378331005"
    /\ out_rows[3].isin = "US0378331005"

\* ---------------------------------------------------------------- C12
\* C12: a completed run over 120 jobs without API key, whether no batch size
\* or a batch size of 100 was given, made exactly 12 calls of 10 jobs each;
\* with an API key and no batch size the batch size in force is 100.
C12_NoKeyBatchesOfTen ==
    /\ (ipc = "done" /\ ~Truthy(api_key) /\ Len(isins) = ScenarioJobs) =>
            calls = [k \in 1..CeilDiv(ScenarioJobs, NoKeyBatch) |-> NoKeyBatch]
    /\ (ipc # "init" /\ Truthy(api_key) /\ batch_arg = Nothing) =>
            batch_size = KeyedBatch

\* ---------------------------------------------------------------- C13
\* C13: a 200 answer whose body is not JSON does not end the run: the batch
\* counts as answered with one empty result per job and the run goes on to
\* the next batch or to the output.
C13_NonJsonIsEmptyBatch ==
    /\ (lastReq # Nothing /\ fstatus = 200 /\ lastBody = Nothing) =>
        /\ fpc # "fatal"
        /\ Len(responses) = lastReq[1].start + Len(lastReq[1].jobs)
    /\ ierr # "JSONDecodeError"

\* ---------------------------------------------------------------- C14
\* the POSTs and sleeps of one post_with_retry call: at most two POSTs of
\* the batch, the k-th retry after a sleep of 2^k seconds
RetriedOnce(sent, sleeps, payload) ==
    /\ Len(sent) <= MaxRetries + 1
    /\ \A k \in 1..Len(sent) : sent[k] = payload
    /\ Len(sleeps) <= Len(sent)
    /\ \A k \in 1..Len(sleeps) : sleeps[k] = 2 ^ k

BatchOf(o) == SubSeq(gup_jobs, o.start + 1, Min(o.start + GupBatchSize, Len(gup_jobs)))

TimedOutTwice == \E k \in 1..Len(gup_outcome) : gup_outcome[k].kind = "timeout"

\* C14 as stated: a timed-out request is POSTed at most twice, the retry
\* after 2^k seconds, and a batch whose retry timed out too ends the run
\* with a fatal error: no further batch, no output file.
C14_TimeoutFatal ==
    /\ RetriedOnce(gup_posted, gup_slept, gup_batch)
    /\ TimedOutTwice => gpc = "fatal" /\ csv_file = Nothing

\* C14, amended: a timed-out request is POSTed at most twice with the same
\* payload, the retry after 2^k seconds; when the retry times out too,
\* post_with_retry raises the timeout, the batch loop catches it, records one
\* empty result per job of the batch and the run goes on to the next batch
\* and to the output file.
C14_TimeoutRetriedOnce ==
    /\ RetriedOnce(gup_posted, gup_slept, gup_batch)
    /\ gpc = "await" => Len(gup_slept) = Len(gup_posted) - 1
    /\ gpc = "post" => Len(gup_slept) = Len(gup_posted)
    /\ \A k \in 1..Len(gup_outcome) :
        LET o == gup_outcome[k]
        IN /\ RetriedOnce(o.posted, o.slept, BatchOf(o))
           /\ Len(o.slept) = Len(o.posted) - 1
           /\ o.kind = "timeout" =>
                /\ Len(o.posted) = MaxRetries + 1
                /\ o.slept = <<2>>
                /\ o.extended = Len(BatchOf(o))
                /\ \A j \in 1..o.extended : results_all[o.start + j] = GBlank
                /\ gpc \in {"post", "await", "done"}
                /\ gerr = NONE
                /\ gpc = "done" => csv_file # Nothing

\* both POSTs of a batch of three timed out; the file holds three N/A rows
C14_Witness ==
    /\ gpc = "done"
    /\ Len(gup_outcome) = 1
    /\ gup_outcome[1].kind = "timeout"
    /\ Len(gup_outcome[1].posted) = 2
    /\ Len(gup_outcome[1].posted[2]) = 3
    /\ gup_outcome[1].slept = <<2>>
    /\ csv_file # Nothing
    /\ Len(csv_file[1]) = 3
    /\ csv_file[1][1] = GupNaRow(figi_list[1])

\* ---------------------------------------------------------------- C15
HandledStatuses == {200, 429, 413}

FatalKinds == {"throttle", "http413", "other", "mismatch"}

\* C16: csv_mode and jsonl_mode write the output only when every payload
\* has an accepted response: a written file holds one row per payload, and a
\* run that a batch ended with a fatal error has written no file and no
\* row, whatever batches were accepted before.
C16_RowsOnlyAfterAllBatches ==
    /\ out_written =>
        /\ fpc = "done"
        /\ AcceptedJobs = payloads
        /\ Len(responses) = Len(payloads)
        /\ Len(out_rows) = Len(payloads)
    /\ out_rows # <<>> => out_written
    /\ fpc = "done" => out_written
    /\ (fpc = "fatal" /\ ferr \in FatalKinds) =>
        /\ ~out_written
        /\ out_rows = <<>>
    /\ fpc = "fatal" => ferr \in FatalKinds \cup {"JSONDecodeError", "ValueError"}

\* jsonl_mode: two batches were accepted, the third was refused with 413 at
\* batch size 1, and nothing has been written
C16_Witness ==
    /\ mode = "jsonl"
    /\ fpc = "fatal"
    /\ ferr = "http413"
    /\ Len(accepted) = 2
    /\ Len(responses) = 2
    /\ Len(payloads) = 3
    /\ ~out_written
    /\ out_rows = <<>>

\* ---------------------------------------------------------------- C17
HasBadRecord(lines) ==
    \E k \in 1..Len(lines) :
        /\ ~lines[k].blank
        /\ lines[k].idType = ABSENT \/ lines[k].idValue = ABSENT

\* C17: when a record of the JSONL file lacks idType or idValue, at any
\* position, jsonl_mode ends with the ValueError and no POST is ever sent;
\* it raises that error for no other input.
C17_RejectedBeforeAnyRequest ==
    /\ (mode = "jsonl" /\ HasBadRecord(jsonl_lines)) =>
        /\ fpc \in {"init", "fatal"}
        /\ fpc = "fatal" => ferr = "ValueError"
        /\ nposts = 0
        /\ inflight = <<>>
        /\ lastReq = Nothing
        /\ accepted = <<>>
        /\ ~out_written
    /\ ferr = "ValueError" => HasBadRecord(jsonl_lines)

\* the bad record is the last line, after a good record and a blank line
C17_Witness ==
    /\ fpc = "fatal"
    /\ ferr = "ValueError"
    /\ jsonl_lines = <<LGood, LBlank, LNoValue>>
    /\ nposts = 0

\* ---------------------------------------------------------------- C18
\* C18: the file GetUltimateParent writes holds exactly one data row per
\* FIGI read from the input column, in input order, whatever candidates the
\* results carry and whatever happened to the batch.
C18_OneRowPerFigi ==
    gpc = "done" =>
        /\ csv_file # Nothing
        /\ Len(csv_file[1]) = Len(DropNa(figi_cells))
        /\ \A j \in 1..Len(csv_file[1]) :
                csv_file[1][j].figi = DropNa(figi_cells)[j]

\* ---------------------------------------------------------------- C19
\* C19: the batch size in force differs from the size of the last answered
\* request exactly when that request was answered 413 at a size above 1;
\* after any other failure (429 on the last attempt, another status, a
\* response of the wrong length) the run has ended with the size unchanged.
C19_ReducedOnlyOn413 ==
    lastReq # Nothing =>
        /\ local_batch_size # lastReq[1].size
                <=> (lastReq[1].status = 413 /\ lastReq[1].size > 1)
        /\ (fpc # "await" /\ fraised # Nothing /\ lastReq[1].status # 413) =>
                fpc = "fatal" /\ inflight = lastReq[1].jobs

\* ---------------------------------------------------------------- C20
SizeInRange(n) == 1 <= n /\ n <= Max(1, max_batch)

SizesInRange ==
    fpc \in {"post", "await", "fatal", "done"} =>
        /\ SizeInRange(current_batch_size)
        /\ payloads # <<>> =>
                /\ SizeInRange(local_batch_size)
                /\ local_batch_size <= current_batch_size

SizeStep ==
    fpc \in {"post", "await"} =>
        /\ local_batch_size' <= local_batch_size
        /\ current_batch_size' <= current_batch_size
        /\ (fpc = "await" /\ mwf_i' # mwf_i) =>
                /\ current_batch_size' = local_batch_size
                /\ local_batch_size' = local_batch_size
        /\ (fpc = "await" /\ fpc' # "await" /\ fstatus' = 413) =>
                /\ responses' = responses
                /\ mwf_i' = mwf_i
                /\ accepted' = accepted

\* C20: while _map_with_fallback runs, the batch size in force is within
\* [1, max(1, max_batch)]; no step increases it; an accepted batch leaves it
\* as it is for the next batch; the handling of a 413 answer changes
\* neither the accumulated responses nor the start index.
C20_SizeBoundedMonotone == []SizesInRange /\ [][SizeStep]_vars

\* a batch of 4 was refused, the first 2 jobs were accepted at size 2, and
\* the last job is sent at size 2 as well
C20_Witness ==
    /\ fpc = "await"
    /\ max_batch = 4
    /\ Len(payloads) = 3
    /\ mwf_i = 2
    /\ current_batch_size = 2
    /\ local_batch_size = 2
    /\ Len(inflight) = 1
    /\ Len(accepted) = 1

\* ---------------------------------------------------------------- C21
\* the jobs the batch loop has sent once the batches recorded in
\* gup_outcome have been handled
JobsSentSoFar == Min(Len(gup_outcome) * GupBatchSize, Len(gup_jobs))

FailedKinds == {"timeout", "exception", "status", "notjson"}

\* C21: after each batch of GetUltimateParent has been handled, results_all
\* holds as many results as jobs were sent so far, whatever the outcome of
\* the batch; a failed batch added exactly one empty result per job and the
\* loop went on (next batch, or the file when there is none); the file pairs
\* result j with input FIGI j.
C21_ResultsMatchJobs ==
    gpc \in {"post", "await", "done"} =>
        /\ Len(results_all) = JobsSentSoFar
        /\ \A k \in 1..Len(gup_outcome) :
                /\ gup_outcome[k].extended = Len(BatchOf(gup_outcome[k]))
                /\ gup_outcome[k].kind \in FailedKinds =>
                        SubSeq(results_all, gup_outcome[k].start + 1,
                               gup_outcome[k].start + gup_outcome[k].extended)
                            = Blanks(Len(BatchOf(gup_outcome[k])))
        /\ gpc = "done" =>
                csv_file = Some(GupCsv(figi_list,
                                       SubSeq(results_all, 1, Len(figi_list))))

\* ---------------------------------------------------------------- C22
\* the wait the rate-limiting rule asks for after a 429 answer: the reset
\* hint of the answer, or the delay parameter of map_figi_batch without one
HintedWait(h) == IF h = Nothing THEN Backoff ELSE h[1]

\* map_figi_batch has just handled a 429 answer
Handled429 == fstatus = 429 /\ fpc \in {"post", "fatal"}

\* C22: when map_figi_batch has handled a 429 answer and another attempt
\* follows, the wait it made is the reset hint the answer carried, or the
\* default delay when it carried none, and the batch it is about to send is
\* the batch that was refused; when the 429 answered the last attempt, no
\* wait was made for it.
C22_WaitIsResetHint ==
    Handled429 =>
        /\ fpc = "post" =>
                /\ Len(fslept) = nposts
                /\ fslept[Len(fslept)] = HintedWait(fhdr)
                /\ batch = lastReq[1].jobs
        /\ fpc = "fatal" => Len(fslept) = nposts - 1

\* ---------------------------------------------------------------- C23
\* weights of the termination measure: one unit of batch size outweighs the
\* attempts of a map_figi_batch call, one remaining job outweighs both
AttemptWeight == 2 * Retry + 2
JobWeight == AttemptWeight * (Max(1, max_batch) + 1)

\* the measure of a running _map_with_fallback with todo jobs left, batch
\* size size, attempt att, and a POST about to be sent (toSend) or answered
Measure(todo, size, att, toSend) ==
    1 + todo * JobWeight + size * AttemptWeight + 2 * (Retry - att)
      + (IF toSend THEN 1 ELSE 0)

Variant ==
    CASE fpc = "init" ->
            1 + Measure(Len(CsvPayload(figi_col)), Max(1, max_batch), 1, TRUE)
      [] fpc \in {"post", "await"} ->
            Measure(Len(payloads) - mwf_i, local_batch_size, attempt,
                    fpc = "post")
      [] OTHER -> 0

\* the run can go on exactly while it has neither returned nor raised, and
\* it has returned only with one response per job
RunEndsOnlyWhenOver ==
    /\ Variant >= 0
    /\ fpc \in {"init", "post", "await"} => ENABLED NextFigi
    /\ fpc \in {"done", "fatal"} => ~ENABLED NextFigi
    /\ fpc = "done" => Len(responses) = Len(payloads) /\ ferr = NONE
    /\ fpc = "fatal" => ferr # NONE

\* every step of the run lowers the measure: an accepted batch by the jobs
\* it answers, a 413 by the size it takes away, a 429 by the attempt used
VariantStep ==
    /\ Variant' < Variant
    /\ (fpc = "await" /\ mwf_i' # mwf_i) => mwf_i' >= mwf_i + 1
    /\ (fpc = "await" /\ fstatus' = 413 /\ fpc' = "post") =>
            local_batch_size' < local_batch_size
    /\ (fpc = "await" /\ fstatus' = 413 /\ local_batch_size = 1) =>
            fpc' = "fatal"
    /\ nposts' <= Retry

\* C23: _map_with_fallback terminates whatever the service answers: a
\* natural-number measure of the run decreases with every step (each
\* accepted batch advances i by at least one job, each 413 lowers the batch
\* size and is fatal at size 1, each call sends at most Retry POSTs), so
\* the POSTs of a run are bounded by the measure of its first state, and
\* the run stops only in done, with every job answered, or in a fatal error.
C23_Terminates == []RunEndsOnlyWhenOver /\ [][VariantStep]_vars

\* a run over 3 jobs that ended with every job answered, after a 413
\* lowered the batch size
C23_Witness ==
    /\ fpc = "done"
    /\ Len(payloads) = 3
    /\ Len(responses) = 3
    /\ current_batch_size < Max(1, max_batch)
    /\ Len(accepted) >= 2

=============================================================================
